---- MODULE Spec2Model ----
(***************************************************************************)
(* The SMS command processor of crates/server: command dispatch, the       *)
(* pending-action workflow (delete / group / vCard import followed by      *)
(* confirm), group creation and the TTL sweep, over the relational store.  *)
(*                                                                         *)
(* A string is a sequence of one-character strings; a table is a set of    *)
(* rows (records); one action handles one inbound message to completion.   *)
(***************************************************************************)
EXTENDS Integers, Sequences, FiniteSets, TLC

VARIABLES
    db,      \* the store: one field per table
    now,     \* unixepoch()
    prompt,  \* per sender, the numbered list of the delete/group reply that awaits its confirm
    last,    \* the message handled last: its handler, sender and reply
    inflight \* the group confirms between their name scan and their transaction

vars == <<db, now, prompt, last, inflight>>

-----------------------------------------------------------------------------
(* Bounds of the model *)

MaxContacts == 2    \* row ids of contacts
MaxGroups == 2      \* row ids of groups
MaxDeferred == 4    \* row ids of deferred_contacts
MaxNow == 301       \* the clock stops here
MaxInFlight == 2    \* requests handled at the same time

-----------------------------------------------------------------------------
(* Characters and strings *)

Digits == <<"0", "1", "2", "3", "4", "5", "6", "7", "8", "9">>
LowerCase ==
    <<"a", "b", "c", "d", "e", "f", "g", "h", "i", "j", "k", "l", "m", "n", "o", "p", "q", "r", "s", "t", "u", "v", "w", "x", "y", "z">>
UpperCase ==
    <<"A", "B", "C", "D", "E", "F", "G", "H", "I", "J", "K", "L", "M", "N", "O", "P", "Q", "R", "S", "T", "U", "V", "W", "X", "Y", "Z">>

Index(alphabet, c) == CHOOSE i \in 1..Len(alphabet) : alphabet[i] = c
In(alphabet, c) == \E i \in 1..Len(alphabet) : alphabet[i] = c

Punctuation == {" ", "\"", "%", "(", ")", "+", ",", "/", "\\", "_"}

\* a character outside ASCII: U+00E9, two bytes in UTF-8
Accented == "é"

Chars == {Digits[i] : i \in 1..Len(Digits)} \cup {UpperCase[i] : i \in 1..Len(UpperCase)}
         \cup {LowerCase[i] : i \in 1..Len(LowerCase)} \cup Punctuation \cup {Accented}

\* the code point of a character
Ascii ==
    [c \in Chars |->
        IF In(Digits, c) THEN 47 + Index(Digits, c)
        ELSE IF In(UpperCase, c) THEN 64 + Index(UpperCase, c)
        ELSE IF In(LowerCase, c) THEN 96 + Index(LowerCase, c)
        ELSE CASE c = " " -> 32 [] c = "\"" -> 34 [] c = "%" -> 37 [] c = "(" -> 40
               [] c = ")" -> 41 [] c = "+" -> 43 [] c = "," -> 44 [] c = "/" -> 47
               [] c = "\\" -> 92 [] c = "_" -> 95 [] c = Accented -> 233]

Code(c) == Ascii[c]

is_ascii_digit(c) == Code(c) >= 48 /\ Code(c) <= 57
is_ascii_lowercase(c) == Code(c) >= 97 /\ Code(c) <= 122

\* char::to_lowercase over ASCII
to_lowercase_char(c) == IF Code(c) >= 65 /\ Code(c) <= 90 THEN LowerCase[Code(c) - 64] ELSE c

to_lowercase(s) == [i \in 1..Len(s) |-> to_lowercase_char(s[i])]

\* char::len_utf8 below U+0800
len_utf8(c) == IF Code(c) < 128 THEN 1 ELSE 2

\* str::len(): the length in bytes
RECURSIVE len(_)
len(s) == IF s = <<>> THEN 0 ELSE len_utf8(Head(s)) + len(Tail(s))

\* byte-wise comparison of two strings (String::cmp, SQLite BINARY collation)
RECURSIVE StrLess(_, _)
StrLess(a, b) ==
    IF b = <<>> THEN FALSE
    ELSE IF a = <<>> THEN TRUE
    ELSE IF Code(Head(a)) # Code(Head(b)) THEN Code(Head(a)) < Code(Head(b))
    ELSE StrLess(Tail(a), Tail(b))

StrLeq(a, b) == a = b \/ StrLess(a, b)

\* SQLite LIKE: % matches any run of characters, _ exactly one character
RECURSIVE Like(_, _)
Like(str, pat) ==
    IF pat = <<>> THEN str = <<>>
    ELSE IF Head(pat) = "%"
         THEN Like(str, Tail(pat)) \/ (str # <<>> /\ Like(Tail(str), pat))
    ELSE /\ str # <<>>
         /\ (Head(pat) = "_" \/ to_lowercase_char(Head(pat)) = to_lowercase_char(Head(str)))
         /\ Like(Tail(str), Tail(pat))

\* format!("%{}%", fragment.to_lowercase())
LikePattern(fragment) == <<"%">> \o to_lowercase(fragment) \o <<"%">>

DigitValue(c) == Code(c) - 48
DigitChar(n) == Digits[n + 1]

RECURSIVE DigitsValue(_, _)
DigitsValue(s, acc) ==
    IF s = <<>> THEN acc ELSE DigitsValue(Tail(s), 10 * acc + DigitValue(Head(s)))

\* str::parse::<usize>(): an optional leading '+', then one or more digits
parse_usize(s) ==
    LET digits == IF s # <<>> /\ Head(s) = "+" THEN Tail(s) ELSE s
    IN  IF digits = <<>> \/ \E i \in 1..Len(digits) : ~is_ascii_digit(digits[i])
        THEN [ok |-> FALSE, val |-> 0]
        ELSE [ok |-> TRUE, val |-> DigitsValue(digits, 0)]

\* format!("group{}", group_num)
GroupName(n) == <<"g", "r", "o", "u", "p", DigitChar(n)>>

-----------------------------------------------------------------------------
(* The store *)

Senders == {"A", "B"}          \* the numbers messages come From
Phones == {"p1", "p2"}         \* the numbers contacts have
NULL == "NULL"

TTL == 300

EmptyDb ==
    [users |-> {}, contacts |-> {}, groups |-> {}, group_members |-> {},
     pending_actions |-> {}, pending_deletions |-> {},
     pending_group_members |-> {}, deferred_contacts |-> {}]

Ids(table) == {r.id : r \in table}
Max(S) == CHOOSE x \in S : \A y \in S : y <= x

\* the rowid an INSERT gets
NextId(table) == IF table = {} THEN 1 ELSE Max(Ids(table)) + 1

\* ON DELETE CASCADE: group_members follow their group, pending_deletions and
\* pending_group_members follow the pending action of their submitter
OnDeleteCascade(d) ==
    [d EXCEPT
        !.group_members = {m \in @ : m.group_id \in Ids(d.groups)},
        !.pending_deletions =
            {r \in @ : \E a \in d.pending_actions :
                          a.submitter_number = r.pending_action_submitter},
        !.pending_group_members =
            {r \in @ : \E a \in d.pending_actions :
                          a.submitter_number = r.pending_action_submitter}]

\* the DELETE without its WHERE
DeletePendingActions_of_everyone(d, from) ==
    OnDeleteCascade([d EXCEPT !.pending_actions = {}])

\* the DELETE taking the deferred_contacts of a deleted pending action with it
DeletePendingActions_cascading(d, from) ==
    OnDeleteCascade(
        [d EXCEPT !.pending_actions = {a \in @ : a.submitter_number # from},
                  !.deferred_contacts =
                        {r \in @ : \/ r.submitter_number # from
                                  \/ \A a \in d.pending_actions : a.submitter_number # from}])

\* DELETE FROM pending_actions WHERE submitter_number = ?
DeletePendingActions(d, from) ==
    OnDeleteCascade(
        [d EXCEPT !.pending_actions = {a \in @ : a.submitter_number # from}])

\* INSERT INTO pending_actions (submitter_number, action_type); created_at
\* takes its default, unixepoch()
InsertPendingAction(d, from, action_type, t) ==
    [d EXCEPT !.pending_actions = @ \cup
        {[submitter_number |-> from, action_type |-> action_type, created_at |-> t]}]

\* set_pending_action without its DELETE
set_pending_action_keeping(d, from, action_type, t) ==
    InsertPendingAction(d, from, action_type, t)

set_pending_action(d, from, action_type, t) ==
    InsertPendingAction(DeletePendingActions(d, from), from, action_type, t)

\* the rows of a set as ORDER BY <key> may return them: every arrangement in
\* which the keys do not decrease (rows with equal keys come in any order)
Arrangements(S) ==
    {f \in [1..Cardinality(S) -> S] : \A i, j \in 1..Cardinality(S) : i # j => f[i] # f[j]}

OrderByName(S, column) ==
    {f \in Arrangements(S) :
        \A i \in 1..(Cardinality(S) - 1) : StrLeq(f[i][column], f[i + 1][column])}

PendingAction(d, from) == {a \in d.pending_actions : a.submitter_number = from}

-----------------------------------------------------------------------------
(* Inbound messages *)

\* the vocabulary of CommandWord
cw_h == <<"h">>
cw_name == <<"n", "a", "m", "e">>
cw_info == <<"i", "n", "f", "o">>
cw_stop == <<"s", "t", "o", "p">>
cw_contacts == <<"c", "o", "n", "t", "a", "c", "t", "s">>
cw_delete == <<"d", "e", "l", "e", "t", "e">>
cw_confirm == <<"c", "o", "n", "f", "i", "r", "m">>
cw_group == <<"g", "r", "o", "u", "p">>

Vocabulary == {cw_h, cw_name, cw_info, cw_stop, cw_contacts, cw_delete, cw_confirm, cw_group}

HexDigits == <<"0", "1", "2", "3", "4", "5", "6", "7", "8", "9", "a", "b", "c", "d", "e", "f">>

is_hex(c) == In(HexDigits, to_lowercase_char(c))

RECURSIVE HexValue(_, _)
HexValue(s, acc) ==
    IF s = <<>> THEN acc
    ELSE HexValue(Tail(s), 16 * acc + Index(HexDigits, to_lowercase_char(Head(s))) - 1)

\* the character of a code point; one placeholder for those outside Chars
Other == "?"
from_code(n) == IF \E c \in Chars : Code(c) = n THEN CHOOSE c \in Chars : Code(c) = n ELSE Other

\* serde_json reading the inside of the string literal format!("\"{}\"", ..)
\* builds: a quote ends the literal early and leaves trailing characters, a
\* backslash starts an escape (one of "\/bfnrt, or u and four hex digits)
RECURSIVE parse_str(_, _)
parse_str(s, acc) ==
    IF s = <<>> THEN [ok |-> TRUE, val |-> acc]
    ELSE IF Head(s) = "\"" THEN [ok |-> FALSE, val |-> <<>>]
    ELSE IF Head(s) # "\\" THEN parse_str(Tail(s), Append(acc, Head(s)))
    ELSE IF Len(s) < 2 THEN [ok |-> FALSE, val |-> <<>>]
    ELSE IF s[2] \in {"\"", "\\", "/"} THEN parse_str(SubSeq(s, 3, Len(s)), Append(acc, s[2]))
    ELSE IF s[2] \in {"b", "f", "n", "r", "t"}
         THEN parse_str(SubSeq(s, 3, Len(s)), Append(acc, Other))
    ELSE IF s[2] = "u" /\ Len(s) >= 6 /\ \A i \in 3..6 : is_hex(s[i])
         THEN parse_str(SubSeq(s, 7, Len(s)),
                        Append(acc, from_code(HexValue(SubSeq(s, 3, 6), 0))))
    ELSE [ok |-> FALSE, val |-> <<>>]

\* Display for CommandWord: the name of the variant
to_string(command) ==
    CASE command = "h" -> cw_h [] command = "name" -> cw_name
      [] command = "info" -> cw_info [] command = "stop" -> cw_stop
      [] command = "contacts" -> cw_contacts [] command = "delete" -> cw_delete
      [] command = "confirm" -> cw_confirm [] command = "group" -> cw_group

\* CommandWord::try_from: serde_json::from_str of the lower-cased word between
\* quotes, as the variant whose name the JSON string is
try_from(word) ==
    LET json == parse_str(to_lowercase(word), <<>>)
    IN  IF json.ok /\ json.val \in Vocabulary
        THEN [ok |-> TRUE,
              command |-> CHOOSE c \in {"h", "name", "info", "stop", "contacts", "delete",
                                        "confirm", "group"} : to_string(c) = json.val]
        ELSE [ok |-> FALSE, command |-> "none"]

\* the first words the model's messages use, each parsed once
EscapedH == <<"\\", "u", "0", "0", "6", "8">>

Words ==
    Vocabulary \cup {<<"h", "i">>, <<"D", "e", "l", "e", "t", "e">>, <<"C", "O", "N", "F", "I", "R", "M">>,
                     <<"I", "n", "f", "o">>, <<"N", "A", "M", "E">>, <<"h", "\"">>, EscapedH}

Parsed == [w \in Words |-> try_from(w)]

\* s.trim() over the blank
RECURSIVE TrimStart(_)
TrimStart(s) == IF s # <<>> /\ Head(s) = " " THEN TrimStart(Tail(s)) ELSE s

RECURSIVE TrimEnd(_)
TrimEnd(s) ==
    IF s # <<>> /\ s[Len(s)] = " " THEN TrimEnd(SubSeq(s, 1, Len(s) - 1)) ELSE s

trim(s) == TrimEnd(TrimStart(s))

\* s.split(sep): the pieces between the occurrences of the string sep (at least one piece)
IsPrefix(p, s) == Len(p) <= Len(s) /\ SubSeq(s, 1, Len(p)) = p

RECURSIVE split(_, _, _)
split(s, sep, piece) ==
    IF s = <<>> THEN <<piece>>
    ELSE IF IsPrefix(sep, s)
         THEN <<piece>> \o split(SubSeq(s, Len(sep) + 1, Len(s)), sep, <<>>)
         ELSE split(Tail(s), sep, Append(piece, Head(s)))

\* selections.split(',').map(str::trim)
Selections(text) ==
    LET pieces == split(text, <<",">>, <<>>)
    IN  [i \in 1..Len(pieces) |-> trim(pieces[i])]

\* a message: From, whether it carries a vCard (NumMedia = 1 and a vCard MIME
\* type) and the records of that vCard, and its Body as the first word and the
\* other words joined by blanks (word = <<>> when the trimmed body is empty)
Message(from, has_vcard, vcard, word, rest) ==
    [From |-> from, has_vcard |-> has_vcard, vcard |-> vcard, word |-> word, rest |-> rest]

Known(d, from) == \E u \in d.users : u.number = from

\* which branch of process_message handles the message
Route(d, m) ==
    IF m.has_vcard THEN "vcard"
    ELSE IF ~Known(d, m.From) THEN "onboard"
    ELSE IF m.word = <<>> THEN "none"
    ELSE IF ~Parsed[m.word].ok THEN "unrecognized"
    ELSE Parsed[m.word].command

NoPrompt == [kind |-> "none", groups |-> <<>>, contacts |-> <<>>]

\* the action_type of the sender's pending action, "none" without one
PendingType(d, from) ==
    IF PendingAction(d, from) = {} THEN "none"
    ELSE (CHOOSE a \in PendingAction(d, from) : TRUE).action_type

\* the sender's pending action is older than the TTL at time t
Expired(d, from, t) == \E a \in PendingAction(d, from) : a.created_at < t - TTL

\* what `last` records of a handled message: the handler, the message, the
\* sender's pending action before it and whether it was older than the TTL,
\* the reply, and for a confirm the prompt it answers and the outcome of each
\* selection in order
Handled(op, m, reply, res) ==
    [op |-> op, from |-> m.From, vcard |-> m.vcard, word |-> m.word, text |-> m.rest,
     before |-> PendingType(db, m.From), expired |-> Expired(db, m.From, now),
     shown |-> IF op = "confirm" THEN prompt[m.From] ELSE NoPrompt,
     reply |-> reply, res |-> res]

NotAMessage(op) ==
    [op |-> op, from |-> NULL, vcard |-> <<>>, word |-> <<>>, text |-> <<>>,
     before |-> "none", expired |-> FALSE, shown |-> NoPrompt, reply |-> "none", res |-> <<>>]

\* the prompts that still await their confirm: a prompt is over when its
\* pending action is gone or replaced
Awaiting(d, shown) ==
    [s \in Senders |-> IF PendingType(d, s) = shown[s].kind THEN shown[s] ELSE NoPrompt]

\* the store stays within the bounds on row ids
WithinGroups(d, groups) ==
    /\ \A c \in d.contacts : c.id <= MaxContacts
    /\ \A g \in d.groups : g.id <= groups
    /\ \A r \in d.deferred_contacts : r.id <= MaxDeferred

Within(d) == WithinGroups(d, MaxGroups)

Init ==
    /\ db = EmptyDb
    /\ now = 0
    /\ prompt = [s \in Senders |-> NoPrompt]
    /\ last = NotAMessage("init")
    /\ inflight = {}

-----------------------------------------------------------------------------
(* Onboarding and the commands that start no workflow *)

MAX_NAME_LEN == 20

\* process_name: the words joined; Err(usage) when empty, Err(too long) above
\* MAX_NAME_LEN bytes
process_name(rest) ==
    IF rest = <<>> THEN [ok |-> FALSE, reply |-> "NameUsage", name |-> <<>>]
    ELSE IF len(rest) > MAX_NAME_LEN THEN [ok |-> FALSE, reply |-> "NameTooLong", name |-> <<>>]
    ELSE [ok |-> TRUE, reply |-> "NameSet", name |-> rest]

onboard_new_user(m) ==
    /\ Route(db, m) = "onboard"
    /\ IF m.word # <<>> /\ Parsed[m.word].ok /\ Parsed[m.word].command = "name"
       THEN LET r == process_name(m.rest)
            IN  IF r.ok
                THEN /\ db' = [db EXCEPT !.users = @ \cup {[number |-> m.From, name |-> r.name]}]
                     /\ last' = Handled("onboard", m, "Hello", <<>>)
                ELSE /\ db' = db
                     /\ last' = Handled("onboard", m, r.reply, <<>>)
       ELSE /\ db' = db
            /\ last' = Handled("onboard", m, "Greetings", <<>>)
    /\ UNCHANGED <<now, prompt, inflight>>

\* no command word: the help hint
no_command(m) ==
    /\ Route(db, m) = "none"
    /\ last' = Handled("none", m, "HelpHint", <<>>)
    /\ UNCHANGED <<db, now, prompt, inflight>>

unrecognized(m) ==
    /\ Route(db, m) = "unrecognized"
    /\ last' = Handled("unrecognized", m, "NotRecognized", <<>>)
    /\ UNCHANGED <<db, now, prompt, inflight>>

\* Command::h, Command::info and Command::contacts only read the store
read_only(m) ==
    /\ Route(db, m) \in {"h", "info", "contacts"}
    /\ last' = Handled(Route(db, m), m,
                       IF Route(db, m) = "h" THEN "Help"
                       ELSE IF Route(db, m) = "info" THEN "Info" ELSE "Contacts", <<>>)
    /\ UNCHANGED <<db, now, prompt, inflight>>

\* Command::name for a known sender
update_name(m) ==
    /\ Route(db, m) = "name"
    /\ LET r == process_name(m.rest)
       IN  /\ db' = IF r.ok
                    THEN [db EXCEPT !.users =
                            {IF u.number = m.From THEN [u EXCEPT !.name = r.name] ELSE u : u \in @}]
                    ELSE db
           /\ last' = Handled("name", m, r.reply, <<>>)
    /\ UNCHANGED <<now, prompt, inflight>>

\* Command::stop: delete from users where number = ?
unsubscribe(m) ==
    /\ Route(db, m) = "stop"
    /\ db' = [db EXCEPT !.users = {u \in @ : u.number # m.From}]
    /\ last' = Handled("stop", m, "Goodbye", <<>>)
    /\ UNCHANGED <<now, prompt, inflight>>

-----------------------------------------------------------------------------
(* delete and group: the fuzzy matcher and the entry into a pending action *)

\* WHERE creator_number = ? AND LOWER(name) LIKE ?
MatchingGroups(d, from, like) ==
    {g \in d.groups : g.creator_number = from /\ Like(to_lowercase(g.name), like)}

\* WHERE submitter_number = ? AND LOWER(contact_name) LIKE ?
MatchingContacts(d, from, like) ==
    {c \in d.contacts : c.submitter_number = from /\ Like(to_lowercase(c.contact_name), like)}

IdsOf(rows) == [i \in 1..Len(rows) |-> rows[i].id]
Range(f) == {f[i] : i \in DOMAIN f}

\* the two INSERT loops of handle_delete (0 stands for the NULL id)
InsertPendingDeletions(d, from, groups, contacts) ==
    [d EXCEPT !.pending_deletions = @ \cup
        {[pending_action_submitter |-> from, group_id |-> g.id, contact_id |-> 0] :
            g \in Range(groups)} \cup
        {[pending_action_submitter |-> from, group_id |-> 0, contact_id |-> c.id] :
            c \in Range(contacts)}]

\* handle_delete without its early return
NothingToDelete_unchecked(groups, contacts) == FALSE

\* the condition under which handle_delete returns without writing
NothingToDelete(groups, contacts) == groups = <<>> /\ contacts = <<>>

\* handle_delete called also for a delete without a name
handle_delete_any_name(m) ==
    /\ Route(db, m) = "delete"
    /\ \E groups \in OrderByName(MatchingGroups(db, m.From, LikePattern(m.rest)), "name"),
          contacts \in OrderByName(MatchingContacts(db, m.From, LikePattern(m.rest)), "contact_name") :
            IF NothingToDelete(groups, contacts)
            THEN /\ last' = Handled("delete", m, "NoMatch", <<>>)
                 /\ UNCHANGED <<db, prompt>>
            ELSE /\ db' = InsertPendingDeletions(
                              set_pending_action(db, m.From, "deletion", now),
                              m.From, groups, contacts)
                 /\ prompt' = [prompt EXCEPT ![m.From] =
                        [kind |-> "deletion", groups |-> IdsOf(groups), contacts |-> IdsOf(contacts)]]
                 /\ last' = Handled("delete", m, "DeletePrompt", <<>>)
    /\ UNCHANGED <<now, inflight>>

handle_delete(m) ==
    /\ Route(db, m) = "delete"
    /\ IF m.rest = <<>>
       THEN /\ last' = Handled("delete", m, "DeleteHint", <<>>)
            /\ UNCHANGED <<db, prompt>>
       ELSE \E groups \in OrderByName(MatchingGroups(db, m.From, LikePattern(m.rest)), "name"),
               contacts \in OrderByName(MatchingContacts(db, m.From, LikePattern(m.rest)), "contact_name") :
            IF NothingToDelete(groups, contacts)
            THEN /\ last' = Handled("delete", m, "NoMatch", <<>>)
                 /\ UNCHANGED <<db, prompt>>
            ELSE /\ db' = InsertPendingDeletions(
                              set_pending_action(db, m.From, "deletion", now),
                              m.From, groups, contacts)
                 /\ prompt' = [prompt EXCEPT ![m.From] =
                        [kind |-> "deletion", groups |-> IdsOf(groups), contacts |-> IdsOf(contacts)]]
                 /\ last' = Handled("delete", m, "DeletePrompt", <<>>)
    /\ UNCHANGED <<now, inflight>>

\* Vec::sort_by is stable: equal keys keep their order
RECURSIVE InsertById(_, _)
InsertById(sorted, x) ==
    IF sorted = <<>> THEN <<x>>
    ELSE IF x.id < Head(sorted).id THEN <<x>> \o sorted
    ELSE <<Head(sorted)>> \o InsertById(Tail(sorted), x)

RECURSIVE SortById(_)
SortById(rows) ==
    IF rows = <<>> THEN <<>>
    ELSE InsertById(SortById(SubSeq(rows, 1, Len(rows) - 1)), rows[Len(rows)])

RECURSIVE InsertByName(_, _)
InsertByName(sorted, x) ==
    IF sorted = <<>> THEN <<x>>
    ELSE IF StrLess(x.contact_name, Head(sorted).contact_name) THEN <<x>> \o sorted
    ELSE <<Head(sorted)>> \o InsertByName(Tail(sorted), x)

RECURSIVE SortByName(_)
SortByName(rows) ==
    IF rows = <<>> THEN <<>>
    ELSE InsertByName(SortByName(SubSeq(rows, 1, Len(rows) - 1)), rows[Len(rows)])

\* Vec::dedup_by(|a, b| a.id == b.id): consecutive rows of one id collapse
RECURSIVE Dedup(_)
Dedup(rows) ==
    IF Len(rows) <= 1 THEN rows
    ELSE IF rows[1].id = rows[2].id THEN Dedup(Tail(rows))
    ELSE <<rows[1]>> \o Dedup(Tail(rows))

\* the candidates of handle_group deduplicated without the sort by id
GroupCandidates_dedup_unsorted(appended) == SortByName(Dedup(appended))

\* the candidates of handle_group from the appended per-fragment matches
GroupCandidates(appended) == SortByName(Dedup(SortById(appended)))

\* the per-fragment query results appended in fragment order (every order the
\* queries may return)
RECURSIVE AppendedMatches(_, _, _)
AppendedMatches(d, from, fragments) ==
    IF fragments = <<>> THEN {<<>>}
    ELSE {first \o others :
            first \in OrderByName(MatchingContacts(d, from, LikePattern(Head(fragments))), "contact_name"),
            others \in AppendedMatches(d, from, Tail(fragments))}

InsertPendingGroupMembers(d, from, members) ==
    [d EXCEPT !.pending_group_members = @ \cup
        {[pending_action_submitter |-> from, contact_id |-> c.id] : c \in Range(members)}]

handle_group(m) ==
    /\ Route(db, m) = "group"
    /\ IF m.rest = <<>>
       THEN /\ last' = Handled("group", m, "GroupHint", <<>>)
            /\ UNCHANGED <<db, prompt>>
       ELSE \E appended \in AppendedMatches(db, m.From, Selections(m.rest)) :
            LET members == GroupCandidates(appended)
            IN  IF members = <<>>
                THEN /\ last' = Handled("group", m, "NoMatch", <<>>)
                     /\ UNCHANGED <<db, prompt>>
                ELSE /\ db' = InsertPendingGroupMembers(
                                  set_pending_action(db, m.From, "group", now),
                                  m.From, members)
                     /\ prompt' = [prompt EXCEPT ![m.From] =
                            [kind |-> "group", groups |-> <<>>, contacts |-> IdsOf(members)]]
                     /\ last' = Handled("group", m, "GroupPrompt", <<>>)
    /\ UNCHANGED <<now, inflight>>

-----------------------------------------------------------------------------
(* vCard import *)

\* add_contact: a contact of that submitter and name keeps its row and takes
\* the number (Updated, or Unchanged when it has it); otherwise a row is added
add_contact(d, from, contact_name, number) ==
    IF \E c \in d.contacts : c.submitter_number = from /\ c.contact_name = contact_name
    THEN [d EXCEPT !.contacts =
            {IF c.submitter_number = from /\ c.contact_name = contact_name
             THEN [c EXCEPT !.contact_user_number = number] ELSE c : c \in @}]
    ELSE [d EXCEPT !.contacts = @ \cup
            {[id |-> NextId(d.contacts), submitter_number |-> from,
              contact_name |-> contact_name, contact_user_number |-> number]}]

\* one deferred_contacts row per number, in the order of the vCard
RECURSIVE InsertDeferred(_, _, _, _)
InsertDeferred(d, from, contact_name, numbers) ==
    IF numbers = <<>> THEN d
    ELSE InsertDeferred(
            [d EXCEPT !.deferred_contacts = @ \cup
                {[id |-> NextId(d.deferred_contacts), submitter_number |-> from,
                  contact_name |-> contact_name, phone_number |-> Head(numbers)]}],
            from, contact_name, Tail(numbers))

\* a record of the vCard by its count of numbers: none, one, several
ImportRecord(d, from, record) ==
    IF Len(record.numbers) = 0 THEN d
    ELSE IF Len(record.numbers) = 1
         THEN add_contact(d, from, record.name, record.numbers[1])
         ELSE InsertDeferred(d, from, record.name, record.numbers)

RECURSIVE ImportRecords(_, _, _)
ImportRecords(d, from, records) ==
    IF records = <<>> THEN d
    ELSE ImportRecords(ImportRecord(d, from, Head(records)), from, Tail(records))

AnyDeferred(records) == \E i \in 1..Len(records) : Len(records[i].numbers) > 1

process_contact_submission(m) ==
    /\ Route(db, m) = "vcard"
    /\ LET imported == ImportRecords(db, m.From, m.vcard)
       IN  db' = IF AnyDeferred(m.vcard)
                 THEN set_pending_action(imported, m.From, "deferred_contacts", now)
                 ELSE imported
    /\ Within(db')
    /\ last' = Handled("vcard", m,
                       IF AnyDeferred(m.vcard) THEN "ImportDeferred" ELSE "Imported", <<>>)
    /\ prompt' = Awaiting(db', prompt)
    /\ UNCHANGED <<now, inflight>>

-----------------------------------------------------------------------------
(* confirm: the deferred_contacts branch *)

\* what one selection came to: ok, the reason when not, and what it addressed
Outcome(token, ok, what, id, contact_name, number) ==
    [token |-> token, ok |-> ok, what |-> what, id |-> id,
     contact_name |-> contact_name, number |-> number]

Invalid(token, what) == Outcome(token, FALSE, what, 0, <<>>, NULL)

\* SELECT DISTINCT contact_name FROM deferred_contacts WHERE submitter_number = ?
\* has no ORDER BY: the names come in any order
DeferredNames(d, from) ==
    Arrangements({r.contact_name : r \in {x \in d.deferred_contacts : x.submitter_number = from}})

\* SELECT phone_number ... WHERE submitter_number = ? AND contact_name = ? ORDER BY id
DeferredNumbers(d, from, contact_name) ==
    LET rows == {r \in d.deferred_contacts :
                    r.submitter_number = from /\ r.contact_name = contact_name}
        ordered == CHOOSE f \in Arrangements(rows) :
                      \A i \in 1..(Cardinality(rows) - 1) : f[i].id < f[i + 1].id
    IN  [i \in 1..Cardinality(rows) |-> ordered[i].phone_number]

\* the shape test: the last character is a lowercase ASCII letter and all
\* before it are ASCII digits
WellFormed(selection) ==
    /\ selection # <<>>
    /\ is_ascii_lowercase(selection[Len(selection)])
    /\ \A i \in 1..(Len(selection) - 1) : is_ascii_digit(selection[i])

\* letter as u8 - b'a'
LetterIndex(letter) == Code(letter) - Code("a")

\* one selection of a deferred_contacts confirm against the names as queried
ResolveDeferred(d, from, names, selection) ==
    IF ~WellFormed(selection) THEN Invalid(selection, "InvalidFormat")
    ELSE LET num == parse_usize(SubSeq(selection, 1, Len(selection) - 1))
             letter == selection[Len(selection)]
         IN  IF ~(num.ok /\ num.val > 0) THEN Invalid(selection, "InvalidNumber")
             ELSE IF num.val > Len(names) THEN Invalid(selection, "NotFound")
             ELSE LET numbers == DeferredNumbers(d, from, names[num.val])
                  IN  IF LetterIndex(letter) >= Len(numbers)
                      THEN Invalid(selection, "InvalidLetter")
                      ELSE Outcome(selection, TRUE, "added", 0, names[num.val],
                                   numbers[LetterIndex(letter) + 1])

\* the outcomes of all selections in order; each success has called add_contact
RECURSIVE ResolveAllDeferred(_, _, _, _)
ResolveAllDeferred(d, from, names, selections) ==
    IF selections = <<>> THEN [db |-> d, res |-> <<>>]
    ELSE LET o == ResolveDeferred(d, from, names, Head(selections))
             d1 == IF o.ok THEN add_contact(d, from, o.contact_name, o.number) ELSE d
             rest == ResolveAllDeferred(d1, from, names, Tail(selections))
         IN  [db |-> rest.db, res |-> <<o>> \o rest.res]

\* format!("{} ({})", contact_name, number.phone_number)
Successful(o) == o.contact_name \o <<" ", "(">> \o <<o.number>> \o <<")">>

\* contact.split(" (").next(): the name the clean-up deletes by
CleanupName(successful) == split(successful, <<" ", "(">>, <<>>)[1]

\* DELETE FROM deferred_contacts WHERE submitter_number = ? AND contact_name = ?
\* for every success, then the pending action when no row of the submitter is left
CleanupDeferred(d, from, res) ==
    LET names == {CleanupName(Successful(res[i])) : i \in {j \in 1..Len(res) : res[j].ok}}
        purged == [d EXCEPT !.deferred_contacts =
                     {r \in @ : ~(r.submitter_number = from /\ r.contact_name \in names)}]
    IN  IF \E r \in purged.deferred_contacts : r.submitter_number = from
        THEN purged
        ELSE DeletePendingActions(purged, from)

-----------------------------------------------------------------------------
(* confirm: the deletion and group branches, and group creation *)

\* groups g JOIN pending_deletions pd ON pd.group_id = g.id
\* WHERE pd.pending_action_submitter = ?
PendingGroups(d, from) ==
    {g \in d.groups : \E pd \in d.pending_deletions :
        pd.pending_action_submitter = from /\ pd.group_id = g.id}

\* contacts c JOIN pending_deletions pd ON pd.contact_id = c.id
\* WHERE pd.pending_action_submitter = ?
PendingContacts(d, from) ==
    {c \in d.contacts : \E pd \in d.pending_deletions :
        pd.pending_action_submitter = from /\ pd.contact_id = c.id}

\* ResolveDeletion with the contacts numbered before the groups
ResolveDeletion_contacts_first(groups, contacts, num_str) ==
    LET num == parse_usize(num_str)
    IN  IF ~(num.ok /\ num.val > 0) THEN Invalid(num_str, "InvalidSelection")
        ELSE IF num.val - 1 < Len(contacts)
             THEN Outcome(num_str, TRUE, "contact", contacts[num.val].id,
                          contacts[num.val].contact_name, NULL)
        ELSE IF num.val - 1 < Len(contacts) + Len(groups)
             THEN Outcome(num_str, TRUE, "group", groups[num.val - Len(contacts)].id,
                          groups[num.val - Len(contacts)].name, NULL)
        ELSE Invalid(num_str, "InvalidSelection")

\* one selection of a deletion confirm against the two lists as queried
ResolveDeletion(groups, contacts, num_str) ==
    LET num == parse_usize(num_str)
    IN  IF ~(num.ok /\ num.val > 0) THEN Invalid(num_str, "InvalidSelection")
        ELSE IF num.val - 1 < Len(groups)
             THEN Outcome(num_str, TRUE, "group", groups[num.val].id, groups[num.val].name, NULL)
        ELSE IF num.val - 1 < Len(groups) + Len(contacts)
             THEN Outcome(num_str, TRUE, "contact", contacts[num.val - Len(groups)].id,
                          contacts[num.val - Len(groups)].contact_name, NULL)
        ELSE Invalid(num_str, "InvalidSelection")

Selected(res, what) == {res[i].id : i \in {j \in 1..Len(res) : res[j].ok /\ res[j].what = what}}

\* CommitDeletion taking the memberships of a deleted contact's number with it
CommitDeletion_with_memberships(d, from, res) ==
    LET gone == {c.contact_user_number : c \in {x \in d.contacts : x.id \in Selected(res, "contact")}}
    IN  DeletePendingActions(
            OnDeleteCascade(
                [d EXCEPT !.groups = {g \in @ : g.id \notin Selected(res, "group")},
                          !.contacts = {c \in @ : c.id \notin Selected(res, "contact")},
                          !.group_members = {r \in @ : r.member_number \notin gone}]),
            from)

\* CommitDeletion keeping the pending action when no selection is valid
CommitDeletion_when_selected(d, from, res) ==
    IF \A i \in DOMAIN res : ~res[i].ok THEN d
    ELSE DeletePendingActions(
            OnDeleteCascade(
                [d EXCEPT !.groups = {g \in @ : g.id \notin Selected(res, "group")},
                          !.contacts = {c \in @ : c.id \notin Selected(res, "contact")}]),
            from)

\* CommitDeletion deleting every listed candidate once one is selected
CommitDeletion_all_listed(d, from, res) ==
    DeletePendingActions(
        OnDeleteCascade(
            [d EXCEPT !.groups = {g \in @ : Selected(res, "group") = {} \/ g \notin PendingGroups(d, from)},
                      !.contacts = {c \in @ : c.id \notin Selected(res, "contact")}]),
        from)

\* DELETE FROM groups / contacts WHERE id = ? for the selected, then
\* DELETE FROM pending_actions WHERE submitter_number = ?
CommitDeletion(d, from, res) ==
    DeletePendingActions(
        OnDeleteCascade(
            [d EXCEPT !.groups = {g \in @ : g.id \notin Selected(res, "group")},
                      !.contacts = {c \in @ : c.id \notin Selected(res, "contact")}]),
        from)

\* contacts c JOIN pending_group_members pgm ON pgm.contact_id = c.id
\* WHERE pgm.pending_action_submitter = ?
PendingMembers(d, from) ==
    {c \in d.contacts : \E pgm \in d.pending_group_members :
        pgm.pending_action_submitter = from /\ pgm.contact_id = c.id}

\* ResolveGroup with OFFSET num
ResolveGroup_offset_num(candidates, num_str) ==
    LET num == parse_usize(num_str)
    IN  IF ~(num.ok /\ num.val > 0) THEN Invalid(num_str, "InvalidNumber")
        ELSE IF num.val + 1 <= Len(candidates)
             THEN Outcome(num_str, TRUE, "member", candidates[num.val + 1].id,
                          candidates[num.val + 1].contact_name,
                          candidates[num.val + 1].contact_user_number)
        ELSE Invalid(num_str, "InvalidSelection")

\* one selection of a group confirm: ORDER BY c.contact_name LIMIT 1 OFFSET num - 1
\* over the candidates as this query returns them
ResolveGroup(candidates, num_str) ==
    LET num == parse_usize(num_str)
    IN  IF ~(num.ok /\ num.val > 0) THEN Invalid(num_str, "InvalidNumber")
        ELSE IF num.val <= Len(candidates)
             THEN Outcome(num_str, TRUE, "member", candidates[num.val].id,
                          candidates[num.val].contact_name,
                          candidates[num.val].contact_user_number)
        ELSE Invalid(num_str, "InvalidSelection")

\* every selection runs its own query
RECURSIVE ResolveAllGroup(_, _, _)
ResolveAllGroup(d, from, selections) ==
    IF selections = <<>> THEN {<<>>}
    ELSE {<<ResolveGroup(candidates, Head(selections))>> \o rest :
            candidates \in OrderByName(PendingMembers(d, from), "contact_name"),
            rest \in ResolveAllGroup(d, from, Tail(selections))}

\* the loop of create_group counting the creator's groups instead
FirstFreeGroupNum_counting(d, from, group_num) ==
    group_num + Cardinality({g \in d.groups : g.creator_number = from})

\* the loop of create_group: the first group_num whose name the creator has not used
RECURSIVE FirstFreeGroupNum(_, _, _)
FirstFreeGroupNum(d, from, group_num) ==
    IF \E g \in d.groups : g.creator_number = from /\ g.name = GroupName(group_num)
    THEN FirstFreeGroupNum(d, from, group_num + 1)
    ELSE group_num

\* INSERT INTO group_members (group_id, member_number), one per selected contact;
\* the rows of a group are told apart by their position among them (no query
\* reads the table's own row id)
RECURSIVE InsertGroupMembers(_, _, _)
InsertGroupMembers(d, group_id, res) ==
    IF res = <<>> THEN d
    ELSE InsertGroupMembers(
            IF Head(res).ok
            THEN [d EXCEPT !.group_members = @ \cup
                    {[id |-> NextId({r \in d.group_members : r.group_id = group_id}),
                      group_id |-> group_id,
                      member_number |-> Head(res).number]}]
            ELSE d,
            group_id, Tail(res))

\* create_group numbering the names from group1
create_group_from_one(d, from, res) ==
    LET group_name == GroupName(FirstFreeGroupNum(d, from, 1))
        group_id == NextId(d.groups)
        inserted == [d EXCEPT !.groups = @ \cup
                        {[id |-> group_id, name |-> group_name, creator_number |-> from]}]
    IN  DeletePendingActions(InsertGroupMembers(inserted, group_id, res), from)

\* create_group: the group row, its members, and the pending action cleared
create_group(d, from, res) ==
    LET group_name == GroupName(FirstFreeGroupNum(d, from, 0))
        group_id == NextId(d.groups)
        inserted == [d EXCEPT !.groups = @ \cup
                        {[id |-> group_id, name |-> group_name, creator_number |-> from]}]
    IN  DeletePendingActions(InsertGroupMembers(inserted, group_id, res), from)

-----------------------------------------------------------------------------
(* confirm, the sweep and the clock *)

confirm_deferred_contacts(m) ==
    \E names \in DeferredNames(db, m.From) :
        LET resolved == ResolveAllDeferred(db, m.From, names, Selections(m.rest))
        IN  /\ db' = CleanupDeferred(resolved.db, m.From, resolved.res)
            /\ last' = Handled("confirm", m, "Deferred", resolved.res)

\* confirm_deletion giving up at an invalid selection
confirm_deletion_aborting(m) ==
    \E groups \in OrderByName(PendingGroups(db, m.From), "name"),
       contacts \in OrderByName(PendingContacts(db, m.From), "contact_name") :
        LET selections == Selections(m.rest)
            res == [i \in 1..Len(selections) |-> ResolveDeletion(groups, contacts, selections[i])]
        IN  IF \E i \in DOMAIN res : ~res[i].ok
            THEN /\ db' = db
                 /\ last' = Handled("confirm", m, "NoValidSelections", res)
            ELSE /\ db' = CommitDeletion(db, m.From, res)
                 /\ last' = Handled("confirm", m, "Deleted", res)

confirm_deletion(m) ==
    \E groups \in OrderByName(PendingGroups(db, m.From), "name"),
       contacts \in OrderByName(PendingContacts(db, m.From), "contact_name") :
        LET selections == Selections(m.rest)
            res == [i \in 1..Len(selections) |-> ResolveDeletion(groups, contacts, selections[i])]
        IN  IF res = <<>>
            THEN /\ db' = db
                 /\ last' = Handled("confirm", m, "NoValidSelections", res)
            ELSE /\ db' = CommitDeletion(db, m.From, res)
                 /\ last' = Handled("confirm", m, "Deleted", res)

\* confirm_group creating no group when no selection is valid
confirm_group_needing_members(m) ==
    \E res \in ResolveAllGroup(db, m.From, Selections(m.rest)) :
        IF \A i \in DOMAIN res : ~res[i].ok
        THEN /\ db' = db
             /\ last' = Handled("confirm", m, "NoValidSelections", res)
        ELSE /\ db' = create_group(db, m.From, res)
             /\ last' = Handled("confirm", m, "Created", res)

confirm_group(m) ==
    \E res \in ResolveAllGroup(db, m.From, Selections(m.rest)) :
        /\ db' = create_group(db, m.From, res)
        /\ last' = Handled("confirm", m, "Created", res)

\* handle_confirm clearing the prompts' leftovers when there is nothing to confirm
handle_confirm_sweeping(m) ==
    /\ Route(db, m) = "confirm"
    /\ IF m.rest = <<>>
       THEN /\ db' = db
            /\ last' = Handled("confirm", m, "ConfirmHint", <<>>)
       ELSE IF PendingAction(db, m.From) = {}
       THEN /\ db' = [db EXCEPT !.deferred_contacts = {r \in @ : r.submitter_number # m.From}]
            /\ last' = Handled("confirm", m, "NoPending", <<>>)
       ELSE \E action \in PendingAction(db, m.From) :
            CASE action.action_type = "deferred_contacts" -> confirm_deferred_contacts(m)
              [] action.action_type = "deletion" -> confirm_deletion(m)
              [] action.action_type = "group" -> confirm_group(m)
    /\ Within(db')
    /\ prompt' = Awaiting(db', prompt)
    /\ UNCHANGED <<now, inflight>>

\* handle_confirm taking a pending action older than the TTL for none
handle_confirm_expiring(m) ==
    /\ Route(db, m) = "confirm"
    /\ IF m.rest = <<>>
       THEN /\ db' = db
            /\ last' = Handled("confirm", m, "ConfirmHint", <<>>)
       ELSE IF \A a \in PendingAction(db, m.From) : a.created_at < now - TTL
       THEN /\ db' = db
            /\ last' = Handled("confirm", m, "NoPending", <<>>)
       ELSE \E action \in PendingAction(db, m.From) :
            CASE action.action_type = "deferred_contacts" -> confirm_deferred_contacts(m)
              [] action.action_type = "deletion" -> confirm_deletion(m)
              [] action.action_type = "group" -> confirm_group(m)
    /\ Within(db')
    /\ prompt' = Awaiting(db', prompt)
    /\ UNCHANGED <<now, inflight>>

\* handle_confirm, with room for that many row ids of groups
handle_confirm_within(m, groups) ==
    /\ Route(db, m) = "confirm"
    /\ IF m.rest = <<>>
       THEN /\ db' = db
            /\ last' = Handled("confirm", m, "ConfirmHint", <<>>)
       ELSE IF PendingAction(db, m.From) = {}
       THEN /\ db' = db
            /\ last' = Handled("confirm", m, "NoPending", <<>>)
       ELSE \E action \in PendingAction(db, m.From) :
            CASE action.action_type = "deferred_contacts" -> confirm_deferred_contacts(m)
              [] action.action_type = "deletion" -> confirm_deletion(m)
              [] action.action_type = "group" -> confirm_group(m)
    /\ WithinGroups(db', groups)
    /\ prompt' = Awaiting(db', prompt)
    /\ UNCHANGED <<now, inflight>>

handle_confirm(m) == handle_confirm_within(m, MaxGroups)

\* a confirm during which the store fails: the error of the failing query leaves
\* handle_confirm through `?`, an open transaction is rolled back, and the reply
\* is the Internal Server Error of handle_incoming_sms. The deletion and group
\* branches write only inside their transaction; the deferred_contacts branch
\* has by then run add_contact on the pool for the selections it got through.
handle_confirm_fault(m) ==
    /\ Route(db, m) = "confirm"
    /\ m.rest # <<>>
    /\ IF PendingType(db, m.From) = "deferred_contacts"
       THEN \E names \in DeferredNames(db, m.From), done \in 0..Len(Selections(m.rest)) :
                db' = ResolveAllDeferred(db, m.From, names,
                                         SubSeq(Selections(m.rest), 1, done)).db
       ELSE db' = db
    /\ Within(db')
    /\ last' = Handled("confirm", m, "InternalError", <<>>)
    /\ prompt' = Awaiting(db', prompt)
    /\ UNCHANGED <<now, inflight>>

\* the selections of a deferred_contacts confirm when the store fails in the
\* add_contact of the selection at position failing: the Err is pushed to the
\* failed list and the loop goes on
RECURSIVE ResolveAllDeferredFailing(_, _, _, _, _)
ResolveAllDeferredFailing(d, from, names, selections, failing) ==
    IF selections = <<>> THEN [db |-> d, res |-> <<>>]
    ELSE LET o == ResolveDeferred(d, from, names, Head(selections))
             fails == o.ok /\ failing = 1
             d1 == IF o.ok /\ ~fails THEN add_contact(d, from, o.contact_name, o.number) ELSE d
             rest == ResolveAllDeferredFailing(d1, from, names, Tail(selections), failing - 1)
         IN  [db |-> rest.db,
              res |-> <<IF fails THEN Invalid(Head(selections), "FailedToAdd") ELSE o>> \o rest.res]

\* a deferred_contacts confirm during which the store fails in one add_contact:
\* the error does not leave handle_confirm, the clean-up runs for the other
\* selections and the reply is the summary with that selection under "Failed"
add_contact_fault(m) ==
    /\ Route(db, m) = "confirm"
    /\ m.rest # <<>>
    /\ PendingType(db, m.From) = "deferred_contacts"
    /\ \E names \in DeferredNames(db, m.From), failing \in 1..Len(Selections(m.rest)) :
        LET resolved == ResolveAllDeferredFailing(db, m.From, names, Selections(m.rest), failing)
        IN  /\ resolved.res[failing].what = "FailedToAdd"
            /\ db' = CleanupDeferred(resolved.db, m.From, resolved.res)
            /\ last' = Handled("confirm", m, "Deferred", resolved.res)
    /\ Within(db')
    /\ prompt' = Awaiting(db', prompt)
    /\ UNCHANGED <<now, inflight>>

\* the request numbers not in flight
FreeRequests == (1..MaxInFlight) \ {r.request : r \in inflight}

\* a group confirm up to pool.begin() of create_group: the pending action is
\* read, every selection is resolved and the loop has found the first
\* group_num whose name the creator has not used; nothing is written yet, and
\* the server takes the next request while this one awaits the store
create_group_scan(m) ==
    /\ Route(db, m) = "confirm"
    /\ m.rest # <<>>
    /\ PendingType(db, m.From) = "group"
    /\ FreeRequests # {}
    /\ \E res \in ResolveAllGroup(db, m.From, Selections(m.rest)) :
        inflight' = inflight \cup
            {[request |-> CHOOSE n \in FreeRequests : \A k \in FreeRequests : n <= k,
              m |-> m, before |-> PendingType(db, m.From), res |-> res,
              group_num |-> FirstFreeGroupNum(db, m.From, 0)]}
    /\ last' = NotAMessage("scan")
    /\ UNCHANGED <<db, now, prompt>>

\* SELECT id FROM groups WHERE creator_number = ? AND name = ? with fetch_one:
\* the id of a row of that creator and name, whichever the store returns first
GroupIds(d, from, group_name) ==
    {g.id : g \in {x \in d.groups : x.creator_number = from /\ x.name = group_name}}

\* the transaction of create_group after the INSERT of the group row: the
\* members under the id read back, and the pending action cleared
create_group_transaction(d, from, res, group_id) ==
    DeletePendingActions(InsertGroupMembers(d, group_id, res), from)

\* the transaction of a group confirm in flight
create_group_commit ==
    \E r \in inflight :
        LET group_name == GroupName(r.group_num)
            inserted == [db EXCEPT !.groups = @ \cup
                            {[id |-> NextId(db.groups), name |-> group_name,
                              creator_number |-> r.m.From]}]
        IN  /\ \E group_id \in GroupIds(inserted, r.m.From, group_name) :
                    db' = create_group_transaction(inserted, r.m.From, r.res, group_id)
            /\ Within(db')
            /\ last' = [Handled("confirm", r.m, "Created", r.res) EXCEPT !.before = r.before]
            /\ inflight' = inflight \ {r}
            /\ prompt' = Awaiting(db', prompt)
            /\ UNCHANGED now

\* DELETE FROM pending_actions WHERE created_at < unixepoch() - 300
cleanup_expired_pending_actions ==
    /\ db' = OnDeleteCascade(
                [db EXCEPT !.pending_actions = {a \in @ : ~(a.created_at < now - TTL)}])
    /\ last' = NotAMessage("sweep")
    /\ prompt' = Awaiting(db', prompt)
    /\ UNCHANGED <<now, inflight>>

\* time passes, by one of the steps
Tick(steps) ==
    /\ \E d \in steps :
        /\ now + d <= MaxNow
        /\ now' = now + d
    /\ last' = NotAMessage("tick")
    /\ UNCHANGED <<db, prompt, inflight>>

-----------------------------------------------------------------------------
(* The specification: every message of a bounded set, the sweep and the clock *)

\* process_message: the handler the message is routed to
process_message(m) ==
    \/ process_contact_submission(m)
    \/ onboard_new_user(m)
    \/ no_command(m)
    \/ unrecognized(m)
    \/ read_only(m)
    \/ update_name(m)
    \/ unsubscribe(m)
    \/ handle_delete(m)
    \/ handle_group(m)
    \/ handle_confirm(m)

Al == <<"A", "l">>
Bo == <<"B", "o">>
BoW == <<"B", "o", " ", "(", "w", ")">>

Card(contact_name, numbers) == <<[name |-> contact_name, numbers |-> numbers]>>

Text(from, word, rest) == Message(from, FALSE, <<>>, word, rest)
VCard(from, records) == Message(from, TRUE, records, <<>>, <<>>)

Sam == <<"S", "a", "m">>

\* the messages of Spec: every handler, the three workflows, few inputs
Messages ==
    {VCard("A", c) : c \in {Card(Bo, <<"p1">>), Card(Al, <<"p1", "p2">>)}}
    \cup {Text("A", w, <<>>) : w \in {<<>>, <<"h", "i">>, cw_h, cw_stop}}
    \cup {Text("A", cw_name, Sam)}
    \cup {Text("A", w, f) : w \in {cw_delete, cw_group}, f \in {<<"o">>, <<"z">>}}
    \cup {Text("A", cw_confirm, t) :
            t \in {<<>>, <<"1">>, <<"1", "a">>, <<"x", ",", " ", "1", ",", " ", "1", "a">>}}

Next ==
    \/ \E m \in Messages : process_message(m)
    \/ cleanup_expired_pending_actions
    \/ Tick({TTL + 1})

Spec == Init /\ [][Next]_vars

\* the messages of SpecSelect: delete and group prompts over two contacts and
\* two groups, confirmed with every shape of selection
SelectMessages ==
    {VCard("A", c) : c \in {Card(Bo, <<"p1">>), Card(BoW, <<"p2">>)}}
    \cup {Text("A", cw_name, Sam)}
    \cup {Text("A", cw_group, <<"w", ",", " ", "o">>)}
    \cup {Text("A", cw_delete, f) : f \in {<<"O">>, <<"w">>}}
    \cup {Text("A", cw_confirm, t) :
            t \in {<<"1">>, <<"3">>, <<"0", ",", " ", "x", ",", "5">>,
                   <<"+", "2", ",", "1", ",", "x">>, <<"1", ",", ",", "1">>}}

NextSelect ==
    \E m \in SelectMessages :
        \/ onboard_new_user(m)
        \/ process_contact_submission(m)
        \/ handle_group(m)
        \/ handle_delete(m)
        \/ handle_confirm(m)

SpecSelect == Init /\ [][NextSelect]_vars

\* the messages of SpecDeferred: vCards with several numbers, for three names,
\* confirmed with every shape of selection
DeferredMessages ==
    {VCard("A", c) : c \in {Card(Bo, <<"p1", "p2">>), Card(Al, <<"p2", "p1">>),
                            Card(BoW, <<"p1", "p2">>), Card(Al, <<"p1">>)}}
    \cup {Text("A", cw_name, Sam)}
    \cup {Text("A", cw_confirm, t) :
            t \in {<<"1", "a">>, <<"1", "b">>, <<"2", "a">>, <<"2", "b">>, <<"1", "c">>, <<"3", "a">>, <<"0", "a">>, <<"1", "A">>, <<"a">>, <<"1">>, <<"x", "1", "a">>, <<"0", "1", "a">>,
                   <<"1", "a", ",", " ", "2", "b">>, <<"1", "a", ",", "1", "b">>, <<"2", "a", ",", "x">>}}

NextDeferred ==
    \E m \in DeferredMessages :
        \/ onboard_new_user(m)
        \/ process_contact_submission(m)
        \/ handle_confirm(m)

SpecDeferred == Init /\ [][NextDeferred]_vars

\* the messages of SpecFault: the three workflows, with a store that may fail
\* during a confirm
FaultMessages ==
    {VCard("A", c) : c \in {Card(Bo, <<"p1">>), Card(Al, <<"p1", "p2">>)}}
    \cup {Text("A", cw_name, Sam)}
    \cup {Text("A", w, <<"o">>) : w \in {cw_delete, cw_group}}
    \cup {Text("A", cw_confirm, t) : t \in {<<"1">>, <<"1", "a">>, <<"1", "a", ",", "1", "b">>}}

NextFault ==
    \E m \in FaultMessages :
        \/ onboard_new_user(m)
        \/ process_contact_submission(m)
        \/ handle_group(m)
        \/ handle_delete(m)
        \/ handle_confirm(m)
        \/ handle_confirm_fault(m)
        \/ add_contact_fault(m)

SpecFault == Init /\ [][NextFault]_vars

\* the messages of SpecGroups: two creators of groups, one of them deleting
\* groups as well
GroupMessages ==
    {Text(s, cw_name, Sam) : s \in Senders}
    \cup {VCard(s, Card(Bo, <<"p1">>)) : s \in Senders}
    \cup {Text(s, cw_group, <<"o">>) : s \in Senders}
    \cup {Text("A", cw_delete, <<"g">>)}
    \cup {Text(s, cw_confirm, <<"1">>) : s \in Senders}

NextGroups ==
    \E m \in GroupMessages :
        \/ onboard_new_user(m)
        \/ process_contact_submission(m)
        \/ handle_group(m)
        \/ handle_delete(m)
        \/ handle_confirm_within(m, MaxGroups + 1)

SpecGroups == Init /\ [][NextGroups]_vars

\* the messages of SpecMatch: fragments in either case, with the characters
\* % and _, empty, repeated and matching nothing, over the contacts and groups
\* of two submitters
MatchMessages ==
    {Text("A", cw_name, Sam), VCard("A", Card(Bo, <<"p1">>)), VCard("B", Card(Al, <<"p2">>))}
    \cup {Text("A", cw_delete, f) : f \in {<<"o">>, <<"O">>, <<"_">>, <<"%">>, <<"l">>}}
    \cup {Text("A", cw_group, f) : f \in {<<"O">>, <<"_">>, <<"o", ",", " ", "B">>, <<",">>, <<"l">>}}
    \cup {Text("A", cw_confirm, <<"1">>)}

NextMatch ==
    \E m \in MatchMessages :
        \/ onboard_new_user(m)
        \/ process_contact_submission(m)
        \/ handle_group(m)
        \/ handle_delete(m)
        \/ handle_confirm(m)

SpecMatch == Init /\ [][NextMatch]_vars

\* the messages of SpecSweep: the three kinds of pending action, of an age below,
\* at and above the TTL when the sweep runs
SweepMessages ==
    {Text("A", cw_name, Sam), VCard("A", Card(Bo, <<"p1">>)), VCard("A", Card(Al, <<"p1", "p2">>))}
    \cup {Text("A", w, <<"o">>) : w \in {cw_delete, cw_group}}
    \cup {Text("A", cw_confirm, <<"1">>)}

NextSweep ==
    \/ \E m \in SweepMessages :
        \/ onboard_new_user(m)
        \/ process_contact_submission(m)
        \/ handle_group(m)
        \/ handle_delete(m)
        \/ handle_confirm(m)
    \/ cleanup_expired_pending_actions
    \/ Tick({TTL, TTL + 1})

SpecSweep == Init /\ [][NextSweep]_vars

\* the messages of SpecFrame: the two prompts and their confirm, and between
\* them every message that is no step of a workflow
FrameMessages ==
    {Text("A", cw_name, Sam), VCard("A", Card(Bo, <<"p1">>))}
    \cup {Text("A", w, <<"o">>) : w \in {cw_delete, cw_group}}
    \cup {Text("A", cw_confirm, <<"1">>)}
    \cup {Text("A", w, <<>>) :
            w \in {<<>>, <<"h", "i">>, EscapedH, cw_h, cw_info, <<"I", "n", "f", "o">>, cw_contacts,
                   cw_delete, <<"D", "e", "l", "e", "t", "e">>, cw_group, cw_confirm}}
    \cup {Text("A", cw_info, cw_delete)}

NextFrame ==
    \E m \in FrameMessages :
        \/ onboard_new_user(m)
        \/ process_contact_submission(m)
        \/ no_command(m)
        \/ unrecognized(m)
        \/ read_only(m)
        \/ update_name(m)
        \/ handle_delete(m)
        \/ handle_group(m)
        \/ handle_confirm(m)

SpecFrame == Init /\ [][NextFrame]_vars

\* the messages of SpecRace: one creator of groups whose requests the server
\* handles at the same time
RaceMessages ==
    {Text("A", cw_name, Sam), VCard("A", Card(Bo, <<"p1">>)), VCard("A", Card(Al, <<"p2">>))}
    \cup {Text("A", cw_group, <<"o">>), Text("A", cw_group, <<"l">>)}
    \cup {Text("A", cw_confirm, t) : t \in {<<"1">>, <<"2">>}}

NextRace ==
    \/ \E m \in RaceMessages :
        \/ onboard_new_user(m)
        \/ process_contact_submission(m)
        \/ handle_group(m)
        \/ handle_confirm(m)
        \/ create_group_scan(m)
    \/ create_group_commit

SpecRace == Init /\ [][NextRace]_vars

\* names at the limit of process_name: MAX_NAME_LEN letters, one more, and
\* more than MAX_NAME_LEN bytes in fewer than MAX_NAME_LEN characters
Longest == [i \in 1..MAX_NAME_LEN |-> "n"]
TooLong == Append(Longest, "n")
Accents == [i \in 1..(MAX_NAME_LEN \div 2 + 1) |-> Accented]

\* the messages of SpecOnboard: two senders, known or not, with every shape of
\* first word and of name, and a vCard
OnboardMessages ==
    {VCard("A", Card(Bo, <<"p1">>))}
    \cup {Text(s, w, <<>>) :
            s \in Senders,
            w \in {<<>>, <<"h", "i">>, cw_h, <<"I", "n", "f", "o">>, <<"h", "\"">>, EscapedH, cw_stop}}
    \cup {Text(s, w, n) :
            s \in Senders, w \in {cw_name, <<"N", "A", "M", "E">>},
            n \in {<<>>, Sam, Longest, TooLong, Accents}}

NextOnboard ==
    \E m \in OnboardMessages :
        \/ process_contact_submission(m)
        \/ onboard_new_user(m)
        \/ no_command(m)
        \/ unrecognized(m)
        \/ read_only(m)
        \/ update_name(m)
        \/ unsubscribe(m)

SpecOnboard == Init /\ [][NextOnboard]_vars

-----------------------------------------------------------------------------
(* The pending-action invariants *)

PendingDeletionsOf(d, s) == {r \in d.pending_deletions : r.pending_action_submitter = s}
PendingGroupMembersOf(d, s) == {r \in d.pending_group_members : r.pending_action_submitter = s}
DeferredContactsOf(d, s) == {r \in d.deferred_contacts : r.submitter_number = s}

HasPending(d, s, action_type) == \E a \in PendingAction(d, s) : a.action_type = action_type

\* C1: after every handled message, sweep and clock step, every submitter has
\* at most one pending_actions row
C1_AtMostOnePendingAction ==
    \A s \in Senders : Cardinality(PendingAction(db, s)) <= 1

\* a delete, group or import has just replaced a pending action of another kind
C1_Witness ==
    /\ last.reply \in {"DeletePrompt", "GroupPrompt", "ImportDeferred"}
    /\ last.before # "none"
    /\ PendingType(db, last.from) # last.before
    /\ Cardinality(PendingAction(db, last.from)) = 1

-----------------------------------------------------------------------------
(* confirm without a pending action *)

\* C10 as stated: every confirm message of a registered submitter without a
\* pending action is answered "No pending actions to confirm." and changes no row
C10_AnyConfirmNothingToConfirm ==
    [][(last'.op = "confirm" /\ last'.before = "none") =>
            (last'.reply = "NoPending" /\ db' = db)]_vars

\* C10: a confirm message with a selection text, of a registered submitter
\* without a pending action, is answered "No pending actions to confirm." and
\* changes no row, so that the same message is handled the same way again
C10_NothingToConfirm ==
    [][(last'.op = "confirm" /\ last'.before = "none" /\ last'.text # <<>>) =>
            /\ last'.reply = "NoPending"
            /\ db' = db
            /\ Known(db', last'.from)
            /\ PendingAction(db', last'.from) = {}]_vars

\* a confirm was answered "No pending actions to confirm." while the submitter
\* had rows that a write could have touched
C10_Witness ==
    /\ last.op = "confirm"
    /\ last.before = "none"
    /\ last.text # <<>>
    /\ last.reply = "NoPending"
    /\ db.contacts # {}
    /\ db.deferred_contacts # {}

-----------------------------------------------------------------------------
(* confirm against the prompts of delete and group *)

\* the index a token denotes: the value of a decimal numeral, with or without a
\* leading plus sign; 0, which addresses nothing, for every other token
IndexOf(token) ==
    LET numeral == IF token # <<>> /\ Head(token) = "+" THEN Tail(token) ELSE token
    IN  IF numeral # <<>> /\ \A i \in DOMAIN numeral : numeral[i] \in Range(Digits)
        THEN DigitsValue(numeral, 0)
        ELSE 0

\* C4: in a deletion confirm, token i addresses the group the delete prompt
\* showed at index i for 1 <= i <= n, the contact it showed at index i for
\* n < i <= n + m, and every other token is reported invalid
C4_IndexAsPrompted ==
    (last.op = "confirm" /\ last.before = "deletion" /\ last.text # <<>>) =>
        LET p == last.shown
            n == Len(p.groups)
            m == Len(p.contacts)
        IN  /\ p.kind = "deletion"
            /\ Len(last.res) = Len(Selections(last.text))
            /\ \A k \in DOMAIN last.res :
                LET o == last.res[k]
                    i == IndexOf(Selections(last.text)[k])
                IN  IF 1 <= i /\ i <= n
                    THEN o.ok /\ o.what = "group" /\ o.id = p.groups[i]
                    ELSE IF n < i /\ i <= n + m
                    THEN o.ok /\ o.what = "contact" /\ o.id = p.contacts[i - n]
                    ELSE ~o.ok

\* a deletion confirm addressed a group and a contact of a prompt that showed
\* both, and had an invalid token
C4_Witness ==
    /\ last.op = "confirm"
    /\ last.before = "deletion"
    /\ last.shown.groups # <<>>
    /\ last.shown.contacts # <<>>
    /\ \E i, j, k \in DOMAIN last.res :
        /\ last.res[i].ok /\ last.res[i].what = "group"
        /\ last.res[j].ok /\ last.res[j].what = "contact"
        /\ ~last.res[k].ok

\* C5: a deletion confirm deletes the groups and contacts its valid tokens
\* address, with the members of those groups, and the submitter's pending
\* action with its candidates; every other row is unchanged
C5_DeletesOnlySelected ==
    [][(last'.op = "confirm" /\ last'.before = "deletion" /\ last'.text # <<>>) =>
        LET s == last'.from
            groups == Selected(last'.res, "group")
            contacts == Selected(last'.res, "contact")
        IN  /\ db'.groups = {g \in db.groups : g.id \notin groups}
            /\ db'.contacts = {c \in db.contacts : c.id \notin contacts}
            /\ db'.group_members = {r \in db.group_members : r.group_id \notin groups}
            /\ PendingAction(db', s) = {}
            /\ db'.pending_actions = {a \in db.pending_actions : a.submitter_number # s}
            /\ PendingDeletionsOf(db', s) = {}
            /\ db'.users = db.users
            /\ db'.deferred_contacts = db.deferred_contacts]_vars

\* a deletion confirm deleted a group and left a listed contact in place
C5_Witness ==
    /\ last.op = "confirm"
    /\ last.before = "deletion"
    /\ Selected(last.res, "group") # {}
    /\ Selected(last.res, "contact") = {}
    /\ \E c \in db.contacts : c.id \in Range(last.shown.contacts)
    /\ PendingAction(db, last.from) = {}

-----------------------------------------------------------------------------
(* confirm of deferred contacts *)

\* the distinct deferred names of a submitter in alphabetical order
AlphabeticalNames(d, s) ==
    LET names == {r.contact_name : r \in DeferredContactsOf(d, s)}
    IN  CHOOSE f \in Arrangements(names) :
            \A i \in 1..(Cardinality(names) - 1) : StrLess(f[i], f[i + 1])

\* the numbers deferred for a name, in the order they were inserted
NumbersInOrder(d, s, contact_name) ==
    LET rows == {r \in DeferredContactsOf(d, s) : r.contact_name = contact_name}
        f == CHOOSE g \in Arrangements(rows) :
                \A i \in 1..(Cardinality(rows) - 1) : g[i].id < g[i + 1].id
    IN  [i \in 1..Cardinality(rows) |-> f[i].phone_number]

\* <digits><lowercase letter>, with at least one digit
Shaped(token) ==
    /\ Len(token) >= 2
    /\ token[Len(token)] \in Range(LowerCase)
    /\ \A i \in 1..(Len(token) - 1) : token[i] \in Range(Digits)

\* C7: in a deferred_contacts confirm, a token <digits><lowercase letter> with
\* number d and letter l resolves to the d-th distinct deferred name in
\* alphabetical order and that name's l-th number in insertion order; every
\* token of another shape or out of range is rejected and adds no contact
C7_TokenResolution ==
    [][(last'.op = "confirm" /\ last'.before = "deferred_contacts" /\ last'.text # <<>>) =>
        LET s == last'.from
            names == AlphabeticalNames(db, s)
            tokens == Selections(last'.text)
        IN  /\ Len(last'.res) = Len(tokens)
            /\ \A k \in DOMAIN tokens :
                LET token == tokens[k]
                    o == last'.res[k]
                    number == IF Shaped(token)
                              THEN DigitsValue(SubSeq(token, 1, Len(token) - 1), 0) ELSE 0
                    letter == IF Shaped(token)
                              THEN Index(LowerCase, token[Len(token)]) ELSE 0
                IN  IF number \in 1..Len(names) /\
                       letter \in 1..Len(NumbersInOrder(db, s, names[number]))
                    THEN /\ o.ok
                         /\ o.contact_name = names[number]
                         /\ o.number = NumbersInOrder(db, s, names[number])[letter]
                    ELSE ~o.ok
            /\ \A c \in db'.contacts \ db.contacts :
                \E k \in DOMAIN last'.res :
                    /\ last'.res[k].ok
                    /\ c.contact_name = last'.res[k].contact_name]_vars

\* C8: after a deferred_contacts confirm no deferred row of a resolved name
\* remains for the submitter, the rows of the other names are untouched, and
\* the pending action is deleted exactly when the submitter has no deferred
\* row left, and is deferred_contacts otherwise
C8_ResolvedNamesPurged ==
    [][(last'.op = "confirm" /\ last'.before = "deferred_contacts" /\ last'.text # <<>>) =>
        LET s == last'.from
            resolved == {last'.res[k].contact_name : k \in {j \in DOMAIN last'.res : last'.res[j].ok}}
        IN  /\ db'.deferred_contacts =
                {r \in db.deferred_contacts : ~(r.submitter_number = s /\ r.contact_name \in resolved)}
            /\ IF DeferredContactsOf(db', s) = {}
               THEN PendingAction(db', s) = {}
               ELSE PendingType(db', s) = "deferred_contacts"]_vars

\* C9: the import of a vCard with one contact of two numbers, by a submitter
\* with no deferred rows and no contact of that name, creates two deferred rows
\* and a deferred_contacts pending action and no contact; the confirm 1a that
\* follows creates one contact, of that name with the first number, removes both
\* deferred rows and clears the pending action
C9_ImportThenConfirm ==
    [][/\ (/\ last'.op = "vcard"
           /\ Len(last'.vcard) = 1
           /\ Len(last'.vcard[1].numbers) = 2
           /\ DeferredContactsOf(db, last'.from) = {})
          => /\ Cardinality(DeferredContactsOf(db', last'.from)) = 2
             /\ NumbersInOrder(db', last'.from, last'.vcard[1].name) = last'.vcard[1].numbers
             /\ PendingType(db', last'.from) = "deferred_contacts"
             /\ db'.contacts = db.contacts
       /\ (/\ last.op = "vcard"
           /\ Len(last.vcard) = 1
           /\ Len(last.vcard[1].numbers) = 2
           /\ Cardinality(DeferredContactsOf(db, last.from)) = 2
           /\ \A c \in db.contacts :
                ~(c.submitter_number = last.from /\ c.contact_name = last.vcard[1].name)
           /\ last'.op = "confirm"
           /\ last'.from = last.from
           /\ last'.text = <<"1", "a">>)
          => /\ \E c \in db'.contacts :
                /\ db'.contacts = db.contacts \cup {c}
                /\ c \notin db.contacts
                /\ c.submitter_number = last.from
                /\ c.contact_name = last.vcard[1].name
                /\ c.contact_user_number = last.vcard[1].numbers[1]
             /\ DeferredContactsOf(db', last.from) = {}
             /\ PendingAction(db', last.from) = {}]_vars

-----------------------------------------------------------------------------
(* confirm sent twice *)

\* C11: when a confirm message has been handled and the identical message is
\* handled again right after it, the second handling changes no contact, group,
\* group member or pending-state row, whatever the kind of the pending action
C11_ReconfirmChangesNothing ==
    [][(/\ last.op = "confirm"
        /\ last.text # <<>>
        /\ last'.op = "confirm"
        /\ last'.from = last.from
        /\ last'.text = last.text) => db' = db]_vars

-----------------------------------------------------------------------------
(* confirm and a failing store *)

\* the stores a confirm message can leave when it runs to its end
Confirmed(d, from, text) ==
    CASE PendingType(d, from) = "deferred_contacts" ->
            {CleanupDeferred(ResolveAllDeferred(d, from, names, Selections(text)).db, from,
                             ResolveAllDeferred(d, from, names, Selections(text)).res) :
                names \in DeferredNames(d, from)}
      [] PendingType(d, from) = "deletion" ->
            {CommitDeletion(d, from,
                    [i \in 1..Len(Selections(text)) |->
                        ResolveDeletion(groups, contacts, Selections(text)[i])]) :
                groups \in OrderByName(PendingGroups(d, from), "name"),
                contacts \in OrderByName(PendingContacts(d, from), "contact_name")}
      [] PendingType(d, from) = "group" ->
            {create_group(d, from, res) : res \in ResolveAllGroup(d, from, Selections(text))}
      [] OTHER -> {d}

\* C12: a confirm during which the store fails leaves the store either as it
\* was before the confirm or as the whole confirm leaves it
C12_ConfirmAllOrNothing ==
    [][(last'.op = "confirm" /\ last'.reply = "InternalError") =>
            (db' = db \/ db' \in Confirmed(db, last'.from, last'.text))]_vars

-----------------------------------------------------------------------------
(* confirm with valid and invalid selections *)

\* how many numbers the deferred names of a submitter have, at least and at most
NumberCounts(d, s) ==
    {Cardinality({r \in DeferredContactsOf(d, s) : r.contact_name = x.contact_name}) :
        x \in DeferredContactsOf(d, s)}

\* C13: in a confirm of any kind every valid selection takes effect and every
\* invalid selection is reported, whatever the other selections of the message
\* are: a listed group or contact is deleted, a listed contact is a member of
\* the new group, a deferred name has a contact with a selected number
C13_ValidSelectionsApply ==
    [][(last'.op = "confirm" /\ last'.before # "none" /\ last'.text # <<>>) =>
        LET s == last'.from
            tokens == Selections(last'.text)
            res == last'.res
            groups == last'.shown.groups
            contacts == last'.shown.contacts
            names == {r.contact_name : r \in DeferredContactsOf(db, s)}
        IN  /\ Len(res) = Len(tokens)
            /\ \A k \in DOMAIN tokens :
                LET i == IndexOf(tokens[k])
                    number == IF Shaped(tokens[k])
                              THEN DigitsValue(SubSeq(tokens[k], 1, Len(tokens[k]) - 1), 0)
                              ELSE 0
                    letter == IF Shaped(tokens[k])
                              THEN Index(LowerCase, tokens[k][Len(tokens[k])]) ELSE 0
                IN  CASE last'.before = "deletion" ->
                            IF i \in 1..Len(groups)
                            THEN res[k].ok /\ \A g \in db'.groups : g.id # groups[i]
                            ELSE IF i \in (Len(groups) + 1)..(Len(groups) + Len(contacts))
                            THEN res[k].ok /\ \A c \in db'.contacts : c.id # contacts[i - Len(groups)]
                            ELSE ~res[k].ok
                      [] last'.before = "group" ->
                            IF i \in 1..Len(contacts)
                            THEN /\ res[k].ok
                                 /\ \E g \in db'.groups \ db.groups, c \in db.contacts,
                                       r \in db'.group_members :
                                        /\ c.id = contacts[i]
                                        /\ r.group_id = g.id
                                        /\ r.member_number = c.contact_user_number
                            ELSE ~res[k].ok
                      [] last'.before = "deferred_contacts" ->
                            IF number \in 1..Cardinality(names) /\
                               \A n \in NumberCounts(db, s) : letter \in 1..n
                            THEN /\ res[k].ok
                                 /\ \E c \in db'.contacts, j \in DOMAIN res :
                                        /\ res[j].ok
                                        /\ c.submitter_number = s
                                        /\ c.contact_name = res[k].contact_name
                                        /\ c.contact_name = res[j].contact_name
                                        /\ c.contact_user_number = res[j].number
                            ELSE IF number \notin 1..Cardinality(names) \/
                                    \A n \in NumberCounts(db, s) : letter \notin 1..n
                            THEN ~res[k].ok
                            ELSE TRUE]_vars

\* a deletion confirm with an invalid selection before a valid one deleted the
\* listed item
C13_Witness ==
    /\ last.op = "confirm"
    /\ last.before = "deletion"
    /\ last.reply = "Deleted"
    /\ \E j, k \in DOMAIN last.res : j < k /\ ~last.res[j].ok /\ last.res[k].ok

-----------------------------------------------------------------------------
(* Unknown senders, names and command words *)

\* the message is a name command whose argument process_name accepts
ValidName(word, text) == to_lowercase(word) = cw_name /\ text # <<>> /\ Len(text) <= MAX_NAME_LEN

\* C14: a message from a sender with no users row that is not a valid name
\* command (any text, no command, an attachment) leaves every table as it was
\* and is answered with the onboarding banner and the name hint (a name command
\* with a bad argument, with the hint of that argument)
C14_UnknownSenderPersistsNothing ==
    [][(/\ last'.from \in Senders
        /\ ~Known(db, last'.from)
        /\ ~(last'.vcard = <<>> /\ ValidName(last'.word, last'.text)))
       => /\ db' = db
          /\ last'.reply \in IF last'.vcard = <<>> /\ to_lowercase(last'.word) = cw_name
                             THEN {"NameUsage", "NameTooLong"}
                             ELSE {"Greetings"}]_vars

\* C15: a name command with an empty argument is answered with the usage hint,
\* one of more than MAX_NAME_LEN characters with the length rejection, and
\* neither touches the users table; a name of 1 to MAX_NAME_LEN characters is
\* accepted and becomes the sender's name
C15_NameValidation ==
    [][(/\ last'.op \in {"name", "onboard"}
        /\ to_lowercase(last'.word) = cw_name)
       => IF last'.text = <<>>
          THEN last'.reply = "NameUsage" /\ db' = db
          ELSE IF Len(last'.text) > MAX_NAME_LEN
          THEN last'.reply = "NameTooLong" /\ db' = db
          ELSE /\ last'.reply = IF Known(db, last'.from) THEN "NameSet" ELSE "Hello"
               /\ db'.users = {u \in db.users : u.number # last'.from}
                                \cup {[number |-> last'.from, name |-> last'.text]}]_vars

Commands == {"h", "name", "info", "stop", "contacts", "delete", "confirm", "group"}

\* C16: of a text message, an empty body is no command and gets the generic
\* help; a first word whose lower-case form is in the vocabulary is recognised,
\* as the command that renders back as that lower-case form; every other first
\* word gets the unrecognised-word reply (for an unknown sender: the name
\* command is recognised, everything else gets the onboarding banner)
C16_CommandParsing ==
    (last.from \in Senders /\ last.vcard = <<>>)
    => IF last.op = "onboard"
       THEN last.reply = "Greetings" <=> to_lowercase(last.word) # cw_name
       ELSE IF last.word = <<>>
       THEN last.op = "none" /\ last.reply = "HelpHint"
       ELSE IF to_lowercase(last.word) \in Vocabulary
       THEN last.op \in Commands /\ to_string(last.op) = to_lowercase(last.word)
       ELSE last.op = "unrecognized" /\ last.reply = "NotRecognized"

-----------------------------------------------------------------------------
(* Expiry *)

\* the store with the sender's pending action created at time t
Renewed(d, from, t) ==
    [d EXCEPT !.pending_actions =
        {IF a.submitter_number = from THEN [a EXCEPT !.created_at = t] ELSE a : a \in @}]

\* C17: a confirm with a selection, received when the sender's pending action
\* is older than the TTL and not yet swept, is resolved as the same confirm on
\* that pending action created just now: the same reply and the same store
C17_ExpiredConfirmResolves ==
    [][(last'.op = "confirm" /\ last'.text # <<>> /\ Expired(db, last'.from, now))
       => /\ last'.reply = CASE last'.before = "deferred_contacts" -> "Deferred"
                             [] last'.before = "deletion" -> "Deleted"
                             [] last'.before = "group" -> "Created"
          /\ Renewed(db', last'.from, now)
                \in Confirmed(Renewed(db, last'.from, now), last'.from, last'.text)]_vars

\* a deletion older than the TTL was confirmed and carried out
C17_Witness ==
    /\ last.op = "confirm"
    /\ last.expired
    /\ last.before = "deletion"
    /\ last.reply = "Deleted"
    /\ \E i \in DOMAIN last.res : last.res[i].ok

-----------------------------------------------------------------------------
(* Accumulating imports *)

\* the rows one record of a vCard adds to deferred_contacts, without their ids
Deferring(from, record) ==
    {[submitter_number |-> from, contact_name |-> record.name, phone_number |-> record.numbers[i]] :
        i \in 1..Len(record.numbers)}

WithoutId(r) ==
    [submitter_number |-> r.submitter_number, contact_name |-> r.contact_name,
     phone_number |-> r.phone_number]

-----------------------------------------------------------------------------
(* Addressing in a group confirm *)

\* C19: in a group confirm, token i with 1 <= i <= the number of candidates
\* resolves to the candidate with i - 1 candidates before it in name order,
\* which is the contact the group prompt showed at index i; a token that is
\* zero, not a number or greater than the number of candidates is reported as
\* an error and selects nothing
C19_GroupIndexAsPrompted ==
    [][(last'.op = "confirm" /\ last'.before = "group" /\ last'.text # <<>>) =>
        LET s == last'.from
            tokens == Selections(last'.text)
            candidates == PendingMembers(db, s)
            res == last'.res
        IN  /\ prompt[s].kind = "group"
            /\ Len(prompt[s].contacts) = Cardinality(candidates)
            /\ DOMAIN res = DOMAIN tokens
            /\ \A k \in DOMAIN tokens :
                LET i == IndexOf(tokens[k])
                IN  IF i \in 1..Cardinality(candidates)
                    THEN /\ res[k].ok
                         /\ res[k].id = prompt[s].contacts[i]
                         /\ \E c \in candidates :
                                /\ c.id = res[k].id
                                /\ Cardinality({b \in candidates :
                                        StrLess(b.contact_name, c.contact_name)}) = i - 1
                    ELSE /\ ~res[k].ok
                         /\ res[k].what \in {"InvalidNumber", "InvalidSelection"}
            /\ \A r \in db'.group_members \ db.group_members :
                \E k \in DOMAIN res : res[k].ok /\ res[k].number = r.member_number]_vars

\* a group confirm over two candidates took the second of the prompt and
\* reported another token as an error
C19_Witness ==
    /\ last.op = "confirm"
    /\ last.before = "group"
    /\ Len(last.shown.contacts) = 2
    /\ \E j, k \in DOMAIN last.res :
        /\ last.res[j].ok
        /\ last.res[j].id = last.shown.contacts[2]
        /\ ~last.res[k].ok

-----------------------------------------------------------------------------
(* Group names *)

GroupsOf(d, s) == {g \in d.groups : g.creator_number = s}

\* C20: a group confirm adds one group, named group<N> for the smallest N such
\* that the creator had no group of that name, whatever the names of the groups
\* of other creators
C20_FirstUnusedGroupName ==
    [][(last'.op = "confirm" /\ last'.before = "group" /\ last'.text # <<>>) =>
        LET s == last'.from
            used == {g.name : g \in GroupsOf(db, s)}
        IN  \E g \in db'.groups \ db.groups :
                /\ db'.groups = db.groups \cup {g}
                /\ g.creator_number = s
                /\ \E N \in 0..Cardinality(used) :
                    /\ g.name = GroupName(N)
                    /\ g.name \notin used
                    /\ \A n \in 0..(N - 1) : GroupName(n) \in used]_vars

\* a creator who had only group1 left, after deleting group0, created group0 again
C20_Witness ==
    /\ last.op = "confirm"
    /\ last.before = "group"
    /\ last.reply = "Created"
    /\ \E g, h \in GroupsOf(db, last.from) :
        /\ g.name = GroupName(0)
        /\ h.name = GroupName(1)
        /\ h.id < g.id

-----------------------------------------------------------------------------
(* The fuzzy matcher *)

\* the fragment occurs in the string, letters compared without their case
Contains(str, fragment) ==
    \E i \in 0..(Len(str) - Len(fragment)) :
        to_lowercase(SubSeq(str, i + 1, i + Len(fragment))) = to_lowercase(fragment)

ContainsAny(str, fragments) == \E i \in DOMAIN fragments : Contains(str, fragments[i])

\* C21: the candidates of a delete are the submitter's own groups and contacts
\* whose name contains the fragment, those of a group the submitter's own
\* contacts whose name contains one of the fragments, without regard to case,
\* whatever characters the fragment has
C21_CandidatesContainFragment ==
    [][(last'.op \in {"delete", "group"} /\ last'.text # <<>>) =>
        LET s == last'.from
            fragments == IF last'.op = "delete" THEN <<last'.text>> ELSE Selections(last'.text)
            contacts == {c \in db.contacts :
                            c.submitter_number = s /\ ContainsAny(c.contact_name, fragments)}
            groups == IF last'.op = "group" THEN {}
                      ELSE {g \in db.groups : g.creator_number = s /\ ContainsAny(g.name, fragments)}
        IN  IF contacts = {} /\ groups = {}
            THEN last'.reply = "NoMatch" /\ db' = db
            ELSE /\ last'.reply \in {"DeletePrompt", "GroupPrompt"}
                 /\ Range(prompt'[s].groups) = Ids(groups)
                 /\ Range(prompt'[s].contacts) = Ids(contacts)
                 /\ IF last'.op = "delete"
                    THEN /\ {r.group_id : r \in PendingDeletionsOf(db', s)} \ {0} = Ids(groups)
                         /\ {r.contact_id : r \in PendingDeletionsOf(db', s)} \ {0} = Ids(contacts)
                    ELSE {r.contact_id : r \in PendingGroupMembersOf(db', s)} = Ids(contacts)]_vars

\* C22: the prompt of a group request and the pending_group_members stored
\* for it hold each matched contact once, however many fragments matched it,
\* and the prompt lists the contacts in ascending order of their names
C22_GroupCandidatesOnceInNameOrder ==
    [][(last'.op = "group" /\ last'.reply = "GroupPrompt") =>
        LET s == last'.from
            shown == prompt'[s].contacts
            NameOf(id) == (CHOOSE c \in db.contacts : c.id = id).contact_name
        IN  /\ prompt'[s].kind = "group"
            /\ \A i, j \in DOMAIN shown : i # j => shown[i] # shown[j]
            /\ \A i, j \in DOMAIN shown : i < j => StrLess(NameOf(shown[i]), NameOf(shown[j]))
            /\ {r.contact_id : r \in PendingGroupMembersOf(db', s)} = Range(shown)
            /\ Cardinality(PendingGroupMembersOf(db', s)) = Len(shown)]_vars

\* two fragments matched the contact imported first, which the prompt lists
\* once, after the contact imported second
C22_Witness ==
    /\ last.op = "group"
    /\ last.reply = "GroupPrompt"
    /\ Len(Selections(last.text)) = 2
    /\ \A i \in 1..2 : \E c \in db.contacts :
            c.id = 1 /\ Contains(c.contact_name, Selections(last.text)[i])
    /\ prompt[last.from].contacts = <<2, 1>>

-----------------------------------------------------------------------------
(* Memberships *)

\* C23: a deletion confirm removes the group_members rows of the groups it
\* deletes and no other: deleting a contact leaves every membership as it was,
\* those holding the number of that contact included
C23_MembershipsOutliveContacts ==
    [][(last'.op = "confirm" /\ last'.before = "deletion" /\ last'.text # <<>>) =>
        db'.group_members =
            {r \in db.group_members : r.group_id \notin Selected(last'.res, "group")}]_vars

\* a contact was deleted, alone, and a group still has its number as a member
C23_Witness ==
    /\ last.op = "confirm"
    /\ last.before = "deletion"
    /\ Selected(last.res, "contact") # {}
    /\ Selected(last.res, "group") = {}
    /\ \E r \in db.group_members :
        /\ r.group_id \in Ids(db.groups)
        /\ \A c \in db.contacts : c.contact_user_number # r.member_number

-----------------------------------------------------------------------------
(* The sweep *)

\* at most one pending action per submitter, and candidate rows of a kind
\* exactly with a pending action of that kind
Consistent(d) ==
    \A s \in Senders :
        /\ Cardinality(PendingAction(d, s)) <= 1
        /\ HasPending(d, s, "deletion") <=> PendingDeletionsOf(d, s) # {}
        /\ HasPending(d, s, "group") <=> PendingGroupMembersOf(d, s) # {}
        /\ HasPending(d, s, "deferred_contacts") <=> DeferredContactsOf(d, s) # {}

-----------------------------------------------------------------------------
(* Submitters are independent *)

\* the rows a submitter owns: its user, contacts, groups with their members,
\* pending action and candidate rows
Owned(d, s) ==
    [users |-> {u \in d.users : u.number = s},
     contacts |-> {c \in d.contacts : c.submitter_number = s},
     groups |-> GroupsOf(d, s),
     group_members |-> {r \in d.group_members : r.group_id \in Ids(GroupsOf(d, s))},
     pending_actions |-> PendingAction(d, s),
     pending_deletions |-> PendingDeletionsOf(d, s),
     pending_group_members |-> PendingGroupMembersOf(d, s),
     deferred_contacts |-> DeferredContactsOf(d, s)]

\* what a submitter owns, told without row ids: contacts by name and number,
\* groups by name and the numbers of their members, candidates by name
Holdings(d, s) ==
    [users |-> {u \in d.users : u.number = s},
     contacts |-> {<<c.contact_name, c.contact_user_number>> : c \in Owned(d, s).contacts},
     groups |-> {<<g.name, {r.member_number : r \in {x \in d.group_members : x.group_id = g.id}}>> :
                    g \in GroupsOf(d, s)},
     pending |-> PendingType(d, s),
     deleting |-> {g.name : g \in PendingGroups(d, s)} \cup {c.contact_name : c \in PendingContacts(d, s)},
     grouping |-> {c.contact_name : c \in PendingMembers(d, s)},
     deferred |-> {<<r.contact_name, r.phone_number>> : r \in DeferredContactsOf(d, s)}]

\* the stores two confirms leave, one handled after the other
ConfirmedInTurn(d, first, second, text) ==
    UNION {Confirmed(after, second, text) : after \in Confirmed(d, first, text)}

-----------------------------------------------------------------------------
(* Store faults *)

\* the store failed while the message was handled
Faulted(l) ==
    \/ l.reply = "InternalError"
    \/ \E i \in DOMAIN l.res : l.res[i].what = "FailedToAdd"

\* C26: a message during whose handling the store fails is answered with the
\* internal-error reply and none of its writes is kept
C26_FaultsAbortTheMessage ==
    [][Faulted(last') => (last'.reply = "InternalError" /\ db' = db)]_vars

-----------------------------------------------------------------------------
(* Group names under concurrent confirms *)

\* C27: no creator has two groups of one name, also when two confirms of the
\* creator for one group pending action are handled at the same time
C27_GroupNamesUniquePerCreator ==
    \A g, h \in db.groups : (g.creator_number = h.creator_number /\ g.name = h.name) => g = h

-----------------------------------------------------------------------------
(* Requests that match nothing *)

\* no group and no contact of the submitter matches a fragment of the request
\* (delete has one fragment, group one per comma)
MatchesNothing(d, l) ==
    LET fragments == IF l.op = "delete" THEN <<l.text>> ELSE Selections(l.text)
    IN  \A i \in DOMAIN fragments :
            /\ MatchingContacts(d, l.from, LikePattern(fragments[i])) = {}
            /\ l.op = "delete" => MatchingGroups(d, l.from, LikePattern(fragments[i])) = {}

\* C28: a delete or group request that matches nothing writes nothing: the
\* store, with the pending action and candidate rows the submitter had, and the
\* prompt awaiting its confirm are as before
C28_NoMatchWritesNothing ==
    [][(last'.op \in {"delete", "group"} /\ last'.text # <<>> /\ MatchesNothing(db, last')) =>
            /\ last'.reply = "NoMatch"
            /\ db' = db
            /\ prompt' = prompt]_vars

\* a request matched nothing while the submitter had a pending action with
\* candidates, which is still there with the prompt it was shown
C28_Witness ==
    /\ last.op \in {"delete", "group"}
    /\ last.reply = "NoMatch"
    /\ last.before \in {"deletion", "group"}
    /\ PendingType(db, last.from) = last.before
    /\ prompt[last.from].kind = last.before
    /\ PendingContacts(db, last.from) \cup PendingMembers(db, last.from) # {}

-----------------------------------------------------------------------------
(* A deletion confirm ends the workflow *)

\* C29: after a deletion confirm with a selection string the submitter has no
\* pending action, no candidate row and no awaited prompt, whatever the tokens
\* are; with no valid token no group and no contact is deleted, and a further
\* confirm then finds nothing to confirm and leaves the store as it is
C29_DeletionConfirmEndsWorkflow ==
    [][(last'.op = "confirm" /\ last'.before = "deletion" /\ last'.text # <<>>) =>
        LET s == last'.from
        IN  /\ PendingType(db', s) = "none"
            /\ PendingDeletionsOf(db', s) = {}
            /\ prompt'[s] = NoPrompt
            /\ (\A i \in DOMAIN last'.res : ~last'.res[i].ok) =>
                    (db'.groups = db.groups /\ db'.contacts = db.contacts)
            /\ \A text \in {<<"1">>, last'.text} : Confirmed(db', s, text) = {db'}]_vars

\* a deletion confirm without a valid token: the listed contacts are all still
\* there and the submitter has no pending action
C29_Witness ==
    /\ last.op = "confirm"
    /\ last.before = "deletion"
    /\ last.res # <<>>
    /\ \A i \in DOMAIN last.res : ~last.res[i].ok
    /\ last.shown.contacts # <<>>
    /\ \A i \in DOMAIN last.shown.contacts :
            \E c \in db.contacts : c.id = last.shown.contacts[i] /\ c.submitter_number = last.from
    /\ PendingAction(db, last.from) = {}

-----------------------------------------------------------------------------
(* A group confirm always creates a group *)

\* C30: a group confirm with a selection string is answered with the created
\* group: one more group of the submitter exists and the pending action with
\* its candidates is gone; when no token is a valid index the new group has no
\* member and the memberships are as before
C30_GroupConfirmAlwaysCreates ==
    [][(last'.op = "confirm" /\ last'.before = "group" /\ last'.text # <<>>) =>
        LET s == last'.from
            created == GroupsOf(db', s) \ GroupsOf(db, s)
        IN  /\ last'.reply = "Created"
            /\ Cardinality(created) = 1
            /\ PendingType(db', s) = "none"
            /\ PendingGroupMembersOf(db', s) = {}
            /\ (\A i \in DOMAIN last'.res : ~last'.res[i].ok) =>
                /\ db'.group_members = db.group_members
                /\ \A g \in created : \A r \in db'.group_members : r.group_id # g.id]_vars

\* a group confirm without a valid index left a group with no member
C30_Witness ==
    /\ last.op = "confirm"
    /\ last.before = "group"
    /\ last.reply = "Created"
    /\ last.res # <<>>
    /\ \A i \in DOMAIN last.res : ~last.res[i].ok
    /\ \E g \in GroupsOf(db, last.from) : \A r \in db.group_members : r.group_id # g.id
    /\ PendingAction(db, last.from) = {}

-----------------------------------------------------------------------------
(* Messages that are no step of a workflow *)

\* a text message that is no workflow step: an empty body, h, info or contacts
\* in any case, a first word outside the vocabulary, or delete, group or
\* confirm without an argument
NotAStep(l) ==
    /\ l.from \in Senders
    /\ l.vcard = <<>>
    /\ \/ l.word = <<>>
       \/ to_lowercase(l.word) \in {cw_h, cw_info, cw_contacts}
       \/ to_lowercase(l.word) \notin Vocabulary
       \/ to_lowercase(l.word) \in {cw_delete, cw_group, cw_confirm} /\ l.text = <<>>

\* C31: a message of a registered sender that is no workflow step leaves every
\* table and the prompt awaiting its confirm as they were, so that a confirm
\* after it leaves the stores that the same confirm before it would have left
C31_NotAStepChangesNothing ==
    [][(NotAStep(last') /\ Known(db, last'.from)) =>
        /\ db' = db
        /\ prompt' = prompt
        /\ \A text \in {<<"1">>, <<"2">>} :
                Confirmed(db', last'.from, text) = Confirmed(db, last'.from, text)]_vars

\* a delete without a name came while the registered sender awaited the confirm
\* of a prompt, whose pending action and candidates are still there
C31_Witness ==
    /\ NotAStep(last)
    /\ Known(db, last.from)
    /\ to_lowercase(last.word) = cw_delete
    /\ last.before \in {"deletion", "group"}
    /\ PendingType(db, last.from) = last.before
    /\ prompt[last.from].kind = last.before
    /\ PendingContacts(db, last.from) \cup PendingMembers(db, last.from) # {}

====
